---- MODULE Spec2Model ----
(***************************************************************************)
(* SuperSearch transcript engine (src/Shared/supersearch_mcp_server.py):   *)
(* the module-level metadata cache, the sync operation, the read-time      *)
(* operations and the text helpers they share.                             *)
(*                                                                         *)
(* Text is a sequence of one-character strings.  A path is a pair          *)
(* <<directory, filename>> standing for str(Path(directory) / filename).   *)
(***************************************************************************)
EXTENDS Integers, Sequences, FiniteSets, TLC

VARIABLES
    disk,        \* the files on disk: path -> [mtime, content]
    docs,        \* the .supercache.json of each directory, or NoDoc
    file_cache,  \* the module-level file_cache: path -> FileRecord
    ret,         \* the response of the call in progress, Idle between calls
                 \* (in SpecOverlap: the position of each caller's call)
    indexed,     \* history: the raw text each FileRecord was built from
    quiet        \* history: directories synced with no file changed since

vars == <<disk, docs, file_cache, ret, indexed, quiet>>

(***************************************************************************)
(* Characters                                                              *)
(***************************************************************************)
NL == "\n"
CR == "\r"
TAB == "\t"
SP == " "
ELLIPSIS == "ELLIPSIS"

Digits == {"0", "1", "2", "3", "4", "5", "6", "7", "8", "9"}

\* str.strip() with no argument removes these from both ends
Whitespace == {SP, TAB, NL, CR}

\* str.lower() on the letters the model uses
Lower(ch) ==
    CASE ch = "A" -> "a"
      [] ch = "B" -> "b"
      [] ch = "P" -> "p"
      [] OTHER -> ch

LowerSeq(s) == [i \in 1..Len(s) |-> Lower(s[i])]

(***************************************************************************)
(* Generic sequence helpers                                                *)
(***************************************************************************)
Drop(s, n) == SubSeq(s, n + 1, Len(s))

Take(s, n) == SubSeq(s, 1, n)

\* length of the longest prefix of s whose characters all lie in cls
RunLen(s, cls) ==
    IF \A i \in 1..Len(s) : s[i] \in cls THEN Len(s)
    ELSE (CHOOSE i \in 1..Len(s) :
              s[i] \notin cls /\ \A j \in 1..(i - 1) : s[j] \in cls) - 1

\* length of the longest prefix of s that has no character of cls
GapLen(s, cls) ==
    IF \A i \in 1..Len(s) : s[i] \notin cls THEN Len(s)
    ELSE (CHOOSE i \in 1..Len(s) :
              s[i] \in cls /\ \A j \in 1..(i - 1) : s[j] \notin cls) - 1

\* s[i..] starts with t
StartsAt(s, i, t) ==
    /\ i + Len(t) - 1 <= Len(s)
    /\ \A k \in 1..Len(t) : s[i + k - 1] = t[k]

\* Python "t in s"
Contains(s, t) == \E i \in 1..(Len(s) + 1) : StartsAt(s, i, t)

\* str.strip()
RECURSIVE LStrip(_)
LStrip(s) == IF s # <<>> /\ Head(s) \in Whitespace THEN LStrip(Tail(s)) ELSE s

RECURSIVE RStrip(_)
RStrip(s) ==
    IF s # <<>> /\ s[Len(s)] \in Whitespace THEN RStrip(Take(s, Len(s) - 1)) ELSE s

Strip(s) == RStrip(LStrip(s))

\* str.split('\n')
RECURSIVE SplitLines(_)
SplitLines(s) ==
    IF \A i \in 1..Len(s) : s[i] # NL
    THEN <<s>>
    ELSE LET k == CHOOSE i \in 1..Len(s) :
                      s[i] = NL /\ \A j \in 1..(i - 1) : s[j] # NL
         IN  <<Take(s, k - 1)>> \o SplitLines(Drop(s, k))

\* sep.join(parts)
RECURSIVE Join(_, _)
Join(sep, parts) ==
    IF parts = <<>> THEN <<>>
    ELSE IF Len(parts) = 1 THEN parts[1]
    ELSE parts[1] \o sep \o Join(sep, Tail(parts))

\* sorted(list of integers)
RECURSIVE Sorted(_)
Sorted(s) ==
    IF s = <<>> THEN <<>>
    ELSE LET k == CHOOSE i \in 1..Len(s) : \A j \in 1..Len(s) : s[i] <= s[j]
         IN  <<s[k]>> \o Sorted(Take(s, k - 1) \o Drop(s, k))

\* list(range(a, b + 1))
Range(a, b) == [i \in 1..(IF b >= a THEN b - a + 1 ELSE 0) |-> a + i - 1]

(***************************************************************************)
(* _clean_content                                                          *)
(***************************************************************************)
\* re.sub(r'\r\n', '\n', content)
SubCRLF(s) ==
    LET marked == [i \in 1..Len(s) |->
                      [ch   |-> s[i],
                       gone |-> s[i] = CR /\ i < Len(s) /\ s[i + 1] = NL]]
        kept   == SelectSeq(marked, LAMBDA e : ~e.gone)
    IN  [i \in 1..Len(kept) |-> kept[i].ch]

\* re.sub(r'\r', '\n', content)
SubCR(s) == [i \in 1..Len(s) |-> IF s[i] = CR THEN NL ELSE s[i]]

\* re.sub(r'[cls]{n,}', rep, content): every maximal run of at least n
\* characters of cls becomes rep, shorter runs stay
RECURSIVE Collapse(_, _, _, _)
Collapse(s, cls, n, rep) ==
    IF s = <<>> THEN <<>>
    ELSE LET r == RunLen(s, cls)
         IN  IF r >= n THEN rep \o Collapse(Drop(s, r), cls, n, rep)
             ELSE IF r > 0 THEN Take(s, r) \o Collapse(Drop(s, r), cls, n, rep)
             ELSE LET k == GapLen(s, cls)
                  IN  Take(s, k) \o Collapse(Drop(s, k), cls, n, rep)

\* a slip: newlines are collapsed before the line endings are unified
_clean_content_unordered(content) ==
    LET c1 == Collapse(content, {NL}, 3, <<NL, NL>>)
        c2 == SubCRLF(c1)
        c3 == SubCR(c2)
        c4 == Collapse(c3, {SP, TAB}, 1, <<SP>>)
        c5 == Collapse(c4, {"."}, 4, <<ELLIPSIS>>)
        c6 == Collapse(c5, {"-"}, 3, <<"-", "-", "-">>)
    IN  Strip(c6)

_clean_content(content) ==
    LET c1 == SubCRLF(content)
        c2 == SubCR(c1)
        c3 == Collapse(c2, {SP, TAB}, 1, <<SP>>)
        c4 == Collapse(c3, {NL}, 3, <<NL, NL>>)
        c5 == Collapse(c4, {"."}, 4, <<ELLIPSIS>>)
        c6 == Collapse(c5, {"-"}, 3, <<"-", "-", "-">>)
    IN  Strip(c6)

(***************************************************************************)
(* Page markers: the pattern r'^# Page \d+' with re.MULTILINE              *)
(***************************************************************************)
MarkerPrefix == <<"#", SP, "P", "a", "g", "e", SP>>

\* '^' under re.MULTILINE: start of text or just after a newline
AtLineStart(s, i) == i = 1 \/ s[i - 1] = NL

\* length of the marker matched at position i, 0 when none matches there
MarkerLenAt(s, i) ==
    IF AtLineStart(s, i) /\ StartsAt(s, i, MarkerPrefix)
    THEN LET d == RunLen(Drop(s, i + Len(MarkerPrefix) - 1), Digits)
         IN  IF d > 0 THEN Len(MarkerPrefix) + d ELSE 0
    ELSE 0

\* len(re.findall(r'^# Page \d+', content, re.MULTILINE))
CountMarkers(s) == Cardinality({i \in 1..Len(s) : MarkerLenAt(s, i) > 0})

\* re.split(r'^# Page \d+', content, flags=re.MULTILINE), scanning from
\* position i with the current fragment starting at position from
RECURSIVE SplitFrom(_, _, _)
SplitFrom(s, from, i) ==
    LET hits == {j \in i..Len(s) : MarkerLenAt(s, j) > 0}
    IN  IF hits = {} THEN <<SubSeq(s, from, Len(s))>>
        ELSE LET j == CHOOSE h \in hits : \A k \in hits : h <= k
                 m == MarkerLenAt(s, j)
             IN  <<SubSeq(s, from, j - 1)>> \o SplitFrom(s, j + m, j + m)

SplitMarkers(s) == SplitFrom(s, 1, 1)

\* [page.strip() for page in pages if page.strip()]
_extract_pages(content) ==
    LET parts == SplitMarkers(content)
        kept  == SelectSeq(parts, LAMBDA p : Strip(p) # <<>>)
    IN  [i \in 1..Len(kept) |-> Strip(kept[i])]

(***************************************************************************)
(* The file system                                                         *)
(*                                                                         *)
(* disk maps every existing file path to its st_mtime and its stored text. *)
(* docs maps a directory to the parsed content of its .supercache.json,    *)
(* or NoDoc when the directory has none.                                   *)
(***************************************************************************)
ExistingDirs == {"d1", "d2"}

MissingDirs == {"nodir"}

Dirs == ExistingDirs \cup MissingDirs

DirExists(d) == d \in ExistingDirs

NoDoc == [absent |-> TRUE]

EmptyCache == <<>>

MdSuffix == <<".", "m", "d">>

\* directory.glob("*.md")
IsMd(name) ==
    Len(name) >= Len(MdSuffix) /\ Drop(name, Len(name) - Len(MdSuffix)) = MdSuffix

Glob(d) == {p \in DOMAIN disk : p[1] = d /\ IsMd(p[2])}

\* open(p, 'r', encoding='utf-8').read(): text mode translates every
\* "\r\n" and every lone "\r" of the stored bytes to "\n"
ReadText(p) == SubCR(SubCRLF(disk[p].content))

\* datetime.fromtimestamp(st_mtime).isoformat(): the timestamp is rendered
\* with microsecond resolution, st_mtime is counted in finer ticks
TicksPerMicrosecond == 2

IsoFormat(mtime) == mtime \div TicksPerMicrosecond

(***************************************************************************)
(* _sync_files                                                             *)
(***************************************************************************)
Idle == [op |-> "none"]

\* a slip: without a cache document the cache in memory is kept
LoadCacheKeeping(d) == IF docs[d] # NoDoc THEN docs[d] ELSE file_cache

\* cache_path.exists() ? json.load(f) : {}
LoadCache(d) == IF docs[d] # NoDoc THEN docs[d] ELSE EmptyCache

is_new(cache, p) == p \notin DOMAIN cache

\* a slip: the cached ISO string is compared with the raw st_mtime
is_modified_raw(cache, p) ==
    ~is_new(cache, p) /\ cache[p].last_modified # disk[p].mtime

\* a slip: a cached path is never looked at again
is_modified_never(cache, p) == FALSE

is_modified(cache, p) ==
    ~is_new(cache, p) /\ cache[p].last_modified # IsoFormat(disk[p].mtime)

\* the record built from the raw (uncleaned) text of the file
FileRecord(p) ==
    LET content == ReadText(p)
        char_count == Len(content)
    IN  [filename         |-> p[2],
         last_modified    |-> IsoFormat(disk[p].mtime),
         char_count       |-> char_count,
         estimated_tokens |-> char_count \div 4,
         pages            |-> CountMarkers(content)]

\* a variant that prunes the records of files no longer on disk
ScanDirectoryPruning(cache, d) ==
    [p \in (DOMAIN cache \cap DOMAIN disk) \cup Glob(d) |->
        IF p \in Glob(d) /\ (is_new(cache, p) \/ is_modified(cache, p))
        THEN FileRecord(p)
        ELSE cache[p]]

\* the cache after the loop over directory.glob("*.md")
ScanDirectory(cache, d) ==
    [p \in DOMAIN cache \cup Glob(d) |->
        IF p \in Glob(d) /\ (is_new(cache, p) \/ is_modified(cache, p))
        THEN FileRecord(p)
        ELSE cache[p]]

NewFiles(cache, d) == {p \in Glob(d) : is_new(cache, p)}

UpdatedFiles(cache, d) == {p \in Glob(d) : is_modified(cache, p)}

\* history: the raw text each record was built from
IndexedAfter(cache, d) ==
    LET read == NewFiles(cache, d) \cup UpdatedFiles(cache, d)
    IN  [p \in DOMAIN indexed \cup read |->
            IF p \in read THEN ReadText(p) ELSE indexed[p]]

\* a .supercache.json whose text json.load cannot parse
BadJson == [invalid |-> TRUE]

Unparsable(d) == docs[d] = BadJson

\* file_cache[file_path]['last_modified'] raises KeyError
LacksTimestamp(cache, p) ==
    p \in DOMAIN cache /\ "last_modified" \notin DOMAIN cache[p]

BadEntries(cache, d) == {p \in Glob(d) : LacksTimestamp(cache, p)}

\* a slip: the loop keeps the records of the files it handled, no others
ScanFilesOnly(cache, done) ==
    [p \in done |->
        IF is_new(cache, p) \/ is_modified(cache, p)
        THEN FileRecord(p)
        ELSE cache[p]]

\* the cache after the loop has handled the files of done and no others
ScanFiles(cache, done) ==
    [p \in DOMAIN cache \cup done |->
        IF p \in done /\ (is_new(cache, p) \/ is_modified(cache, p))
        THEN FileRecord(p)
        ELSE cache[p]]

\* history: the text each record was built from, after such a loop
IndexedFiles(cache, done) ==
    LET read == {p \in done : is_new(cache, p) \/ is_modified(cache, p)}
    IN  [p \in DOMAIN indexed \cup read |->
            IF p \in read THEN ReadText(p) ELSE indexed[p]]

\* _sync_files as called by sync_directory.  json.load raises before
\* file_cache is assigned; a KeyError ends the loop at the first file whose
\* record has no last_modified, after the files that directory.glob yielded
\* before it (any set of the other files) have been handled, and before the
\* cache is saved.
_sync_files(d) ==
    /\ ret = Idle
    /\ IF Unparsable(d)
       THEN /\ ret' = [op |-> "sync", dir |-> d, error |-> "JSONDecodeError"]
            /\ UNCHANGED <<disk, docs, file_cache, indexed, quiet>>
       ELSE LET loaded == LoadCache(d)
            IN  IF ~DirExists(d)
                THEN /\ file_cache' = loaded
                     /\ ret' = [op |-> "sync", dir |-> d, error |-> "Directory does not exist"]
                     /\ UNCHANGED <<disk, docs, indexed, quiet>>
                ELSE IF BadEntries(loaded, d) # {}
                THEN /\ \E done \in SUBSET (Glob(d) \ BadEntries(loaded, d)) :
                           /\ file_cache' = ScanFiles(loaded, done)
                           /\ indexed' = IndexedFiles(loaded, done)
                     /\ ret' = [op |-> "sync", dir |-> d, error |-> "KeyError"]
                     /\ UNCHANGED <<disk, docs, quiet>>
                ELSE /\ file_cache' = ScanDirectory(loaded, d)
                     /\ docs' = [docs EXCEPT ![d] = ScanDirectory(loaded, d)]
                     /\ indexed' = IndexedAfter(loaded, d)
                     /\ ret' = [op            |-> "sync",
                                dir           |-> d,
                                processed     |-> Cardinality(Glob(d)),
                                new_files     |-> Cardinality(NewFiles(loaded, d)),
                                updated_files |-> Cardinality(UpdatedFiles(loaded, d)),
                                total_cached  |-> Cardinality(DOMAIN ScanDirectory(loaded, d))]
                     /\ quiet' = quiet \cup {d}
                     /\ UNCHANGED disk

sync_directory == \E d \in Dirs : _sync_files(d)

(***************************************************************************)
(* Values shared by the read-time operations                               *)
(***************************************************************************)
\* Optional arguments: None is the empty tuple, a given value x is <<x>>
NoneV == <<>>

Some(x) == <<x>>

\* an exception leaving a core function
Raise(msg) == [raised |-> msg]

\* open(file, 'r') succeeds
Readable(file) == file \in DOMAIN disk

\* a slip: the text is taken from what the last sync read, not from the disk
CleanTextIndexed(file) == _clean_content(indexed[file])

\* _clean_content(f.read())
CleanText(file) == _clean_content(ReadText(file))

RECURSIVE SetToSeq(_)
SetToSeq(S) ==
    IF S = {} THEN <<>>
    ELSE LET x == CHOOSE x \in S : TRUE IN <<x>> \o SetToSeq(S \ {x})

\* file_cache.items(), in one fixed order
CacheItems == SetToSeq(DOMAIN file_cache)

\* Regular expressions of the model: a sequence of characters in which "."
\* matches any character but a newline, every other character matches itself
\* (re.IGNORECASE), and an opening parenthesis is never closed (re.error)
RegexInvalid(q) == \E k \in 1..Len(q) : q[k] = "("

RegexMatchAt(q, s, i) ==
    /\ i + Len(q) - 1 <= Len(s)
    /\ \A k \in 1..Len(q) :
          IF q[k] = "." THEN s[i + k - 1] # NL
          ELSE Lower(q[k]) = Lower(s[i + k - 1])

\* re.search(q, s, re.IGNORECASE) is not None
RegexSearch(q, s) == \E i \in 1..(Len(s) + 1) : RegexMatchAt(q, s, i)

\* pattern.finditer(s): the start positions (1-based) of the
\* non-overlapping matches, left to right, scanning from position i
RECURSIVE FindIter(_, _, _)
FindIter(q, s, i) ==
    IF i > Len(s) + 1 THEN <<>>
    ELSE IF RegexMatchAt(q, s, i)
         THEN <<i>> \o FindIter(q, s, IF Len(q) = 0 THEN i + 1 ELSE i + Len(q))
         ELSE FindIter(q, s, i + 1)

\* s.count('\n')
CountNL(s) == Cardinality({i \in 1..Len(s) : s[i] = NL})

(***************************************************************************)
(* _search_filenames                                                       *)
(***************************************************************************)
SafeLimit == 10

FilenameMatches(query, regex, filename) ==
    IF regex THEN RegexSearch(query, filename)
    ELSE Contains(LowerSeq(filename), LowerSeq(query))

\* a slip: the guardrail already fires at the limit
_search_filenames_at_limit(query, regex, safe) ==
    IF regex /\ RegexInvalid(query) /\ file_cache # EmptyCache
    THEN Raise("re.error")
    ELSE LET hits == SelectSeq(CacheItems,
                        LAMBDA p : FilenameMatches(query, regex, file_cache[p].filename))
             results == [i \in 1..Len(hits) |->
                            [file             |-> hits[i],
                             filename         |-> file_cache[hits[i]].filename,
                             estimated_tokens |-> file_cache[hits[i]].estimated_tokens,
                             pages            |-> file_cache[hits[i]].pages]]
             res_len == Len(results)
         IN  IF safe /\ res_len >= SafeLimit
             THEN [preview |-> TRUE, count |-> res_len,
                   message |-> "exceeds the safe limit"]
             ELSE [preview |-> FALSE, count |-> res_len, results |-> results]

_search_filenames(query, regex, safe) ==
    IF regex /\ RegexInvalid(query) /\ file_cache # EmptyCache
    THEN Raise("re.error")
    ELSE LET hits == SelectSeq(CacheItems,
                        LAMBDA p : FilenameMatches(query, regex, file_cache[p].filename))
             results == [i \in 1..Len(hits) |->
                            [file             |-> hits[i],
                             filename         |-> file_cache[hits[i]].filename,
                             estimated_tokens |-> file_cache[hits[i]].estimated_tokens,
                             pages            |-> file_cache[hits[i]].pages]]
             res_len == Len(results)
         IN  IF safe /\ res_len > SafeLimit
             THEN [preview |-> TRUE, count |-> res_len,
                   message |-> "exceeds the safe limit"]
             ELSE [preview |-> FALSE, count |-> res_len, results |-> results]

(***************************************************************************)
(* _search_content                                                         *)
(***************************************************************************)
SnippetContext == 100

MaxSnippets == 3

\* _get_snippet_around_position(content, position), position 0-based
_get_snippet_around_position(content, position) ==
    LET start == IF position - SnippetContext > 0 THEN position - SnippetContext ELSE 0
        end   == IF position + SnippetContext < Len(content)
                 THEN position + SnippetContext ELSE Len(content)
    IN  SubSeq(content, start + 1, end)

RegexMatches(query, content) ==
    LET starts == FindIter(query, content, 1)
    IN  [k \in 1..Len(starts) |->
            [line  |-> CountNL(Take(content, starts[k] - 1)) + 1,
             match |-> SubSeq(content, starts[k], starts[k] + Len(query) - 1),
             start |-> starts[k] - 1,
             end   |-> starts[k] - 1 + Len(query)]]

LiteralMatches(query, content) ==
    LET lines == SplitLines(content)
        hit   == SelectSeq([i \in 1..Len(lines) |-> i],
                     LAMBDA i : Contains(LowerSeq(lines[i]), LowerSeq(query)))
    IN  [k \in 1..Len(hit) |->
            [line |-> hit[k], match |-> query, content |-> Strip(lines[hit[k]])]]

ContentMatches(query, regex, content) ==
    IF regex THEN RegexMatches(query, content) ELSE LiteralMatches(query, content)

Snippets(matches, regex, content) ==
    LET first == Take(matches, IF Len(matches) < MaxSnippets THEN Len(matches) ELSE MaxSnippets)
    IN  [k \in 1..Len(first) |->
            [line    |-> first[k].line,
             snippet |-> IF regex
                         THEN _get_snippet_around_position(content, first[k].start)
                         ELSE first[k].content]]

FileResult(file, query, regex, with_snippets) ==
    LET content == CleanText(file)
        matches == ContentMatches(query, regex, content)
        base    == [file             |-> file,
                    match_count      |-> Len(matches),
                    estimated_tokens |-> file_cache[file].estimated_tokens]
    IN  IF with_snippets
        THEN base @@ [snippets |-> Snippets(matches, regex, content)]
        ELSE base

\* the loop over files_to_search: the exception that ends it, or the results
RECURSIVE SearchLoop(_, _, _, _)
SearchLoop(cands, query, regex, with_snippets) ==
    IF cands = <<>> THEN [raised |-> "", results |-> <<>>]
    ELSE IF ~Readable(Head(cands)) THEN [raised |-> "FileNotFoundError", results |-> <<>>]
    ELSE IF regex /\ RegexInvalid(query) THEN [raised |-> "re.error", results |-> <<>>]
    ELSE LET rest == SearchLoop(Tail(cands), query, regex, with_snippets)
             here == FileResult(Head(cands), query, regex, with_snippets)
         IN  IF rest.raised # "" THEN rest
             ELSE [raised  |-> "",
                   results |-> (IF here.match_count > 0 THEN <<here>> ELSE <<>>)
                                   \o rest.results]

\* files is None or Some(list of paths)
_search_content(query, files, regex, with_snippets, safe) ==
    LET files_to_search ==
            IF files = NoneV THEN CacheItems
            ELSE SelectSeq(files[1], LAMBDA f : f \in DOMAIN file_cache)
        loop    == SearchLoop(files_to_search, query, regex, with_snippets)
        res_len == Len(loop.results)
    IN  IF loop.raised # "" THEN Raise(loop.raised)
        ELSE IF safe /\ res_len > SafeLimit
        THEN [preview |-> TRUE, count |-> res_len,
              message |-> "exceeds the safe limit"]
        ELSE [preview |-> FALSE, count |-> res_len, results |-> loop.results]

(***************************************************************************)
(* _preview_file                                                           *)
(***************************************************************************)
PreviewLimit == 2000

\* a slip: the last requested line is left out
_preview_file_exclusive(file, start_line_arg, end_line_arg, safe) ==
    IF file \notin DOMAIN file_cache THEN [error |-> "not found in cache"]
    ELSE IF ~Readable(file) THEN Raise("FileNotFoundError")
    ELSE LET lines       == SplitLines(CleanText(file))
             total_lines == Len(lines)
             start_line  == IF start_line_arg < 1 THEN 1 ELSE start_line_arg
             end_line    == IF end_line_arg = NoneV THEN total_lines
                            ELSE IF end_line_arg[1] > total_lines THEN total_lines
                            ELSE end_line_arg[1]
             selected_lines  == SubSeq(lines, start_line, end_line - 1)
             preview_content == Join(<<NL>>, selected_lines)
             char_count      == Len(preview_content)
         IN  IF start_line > total_lines THEN [error |-> "start line exceeds file length"]
             ELSE IF end_line < start_line
             THEN [error |-> "end line less than start line"]
             ELSE IF safe /\ char_count > PreviewLimit
             THEN [preview         |-> TRUE,
                   requested_lines |-> <<start_line, end_line>>,
                   char_count      |-> char_count,
                   message         |-> "exceeds the preview limit"]
             ELSE [preview          |-> FALSE,
                   file             |-> file,
                   requested_lines  |-> <<start_line, end_line>>,
                   total_lines      |-> total_lines,
                   returned_lines   |-> Len(selected_lines),
                   char_count       |-> char_count,
                   estimated_tokens |-> char_count \div 4,
                   content          |-> preview_content]

\* a slip: a text of exactly PreviewLimit characters is withheld too
_preview_file_at_limit(file, start_line_arg, end_line_arg, safe) ==
    IF file \notin DOMAIN file_cache THEN [error |-> "not found in cache"]
    ELSE IF ~Readable(file) THEN Raise("FileNotFoundError")
    ELSE LET lines       == SplitLines(CleanText(file))
             total_lines == Len(lines)
             start_line  == IF start_line_arg < 1 THEN 1 ELSE start_line_arg
             end_line    == IF end_line_arg = NoneV THEN total_lines
                            ELSE IF end_line_arg[1] > total_lines THEN total_lines
                            ELSE end_line_arg[1]
             selected_lines  == SubSeq(lines, start_line, end_line)
             preview_content == Join(<<NL>>, selected_lines)
             char_count      == Len(preview_content)
         IN  IF start_line > total_lines THEN [error |-> "start line exceeds file length"]
             ELSE IF end_line < start_line
             THEN [error |-> "end line less than start line"]
             ELSE IF safe /\ char_count >= PreviewLimit
             THEN [preview         |-> TRUE,
                   requested_lines |-> <<start_line, end_line>>,
                   char_count      |-> char_count,
                   message         |-> "exceeds the preview limit"]
             ELSE [preview          |-> FALSE,
                   file             |-> file,
                   requested_lines  |-> <<start_line, end_line>>,
                   total_lines      |-> total_lines,
                   returned_lines   |-> Len(selected_lines),
                   char_count       |-> char_count,
                   estimated_tokens |-> char_count \div 4,
                   content          |-> preview_content]

\* end_line is None or Some(integer)
_preview_file(file, start_line_arg, end_line_arg, safe) ==
    IF file \notin DOMAIN file_cache THEN [error |-> "not found in cache"]
    ELSE IF ~Readable(file) THEN Raise("FileNotFoundError")
    ELSE LET lines       == SplitLines(CleanText(file))
             total_lines == Len(lines)
             start_line  == IF start_line_arg < 1 THEN 1 ELSE start_line_arg
             end_line    == IF end_line_arg = NoneV THEN total_lines
                            ELSE IF end_line_arg[1] > total_lines THEN total_lines
                            ELSE end_line_arg[1]
             selected_lines  == SubSeq(lines, start_line, end_line)
             preview_content == Join(<<NL>>, selected_lines)
             char_count      == Len(preview_content)
         IN  IF start_line > total_lines THEN [error |-> "start line exceeds file length"]
             ELSE IF end_line < start_line
             THEN [error |-> "end line less than start line"]
             ELSE IF safe /\ char_count > PreviewLimit
             THEN [preview         |-> TRUE,
                   requested_lines |-> <<start_line, end_line>>,
                   char_count      |-> char_count,
                   message         |-> "exceeds the preview limit"]
             ELSE [preview          |-> FALSE,
                   file             |-> file,
                   requested_lines  |-> <<start_line, end_line>>,
                   total_lines      |-> total_lines,
                   returned_lines   |-> Len(selected_lines),
                   char_count       |-> char_count,
                   estimated_tokens |-> char_count \div 4,
                   content          |-> preview_content]

(***************************************************************************)
(* Page selection shared by _segment_file and _read_file                   *)
(***************************************************************************)
PageOutOfRange(page_num, total_pages) == page_num < 1 \/ page_num > total_pages

\* the error of the selection, "" when the selection is valid
SelectionError(page_list, start_page, end_page, total_pages) ==
    IF page_list # NoneV
    THEN IF \E k \in 1..Len(page_list[1]) : PageOutOfRange(page_list[1][k], total_pages)
         THEN "page out of range" ELSE ""
    ELSE IF PageOutOfRange(start_page, total_pages) THEN "start_page out of range"
    ELSE IF end_page < start_page \/ end_page > total_pages THEN "end_page out of range"
    ELSE ""

\* a slip: the listed pages are taken in the order given
PagesToIncludeAsGiven(page_list, start_page, end_page) ==
    IF page_list # NoneV THEN page_list[1] ELSE Range(start_page, end_page)

PagesToInclude(page_list, start_page, end_page) ==
    IF page_list # NoneV THEN Sorted(page_list[1]) ELSE Range(start_page, end_page)

(***************************************************************************)
(* _segment_file                                                           *)
(***************************************************************************)
\* s[:n]: a negative n counts from the end
SliceTo(s, n) ==
    IF n >= 0 THEN Take(s, IF n > Len(s) THEN Len(s) ELSE n)
    ELSE Take(s, IF Len(s) + n > 0 THEN Len(s) + n ELSE 0)

Truncate(page_content, max_chars) ==
    IF Len(page_content) > max_chars
    THEN SliceTo(page_content, max_chars) \o <<".", ".", ".">>
    ELSE page_content

\* a slip: the pages are cut from the text as it is on disk, not cleaned
_segment_file_uncleaned(file, page_list, start_page, end_page, max_chars) ==
    IF file \notin DOMAIN file_cache THEN [error |-> "not found in cache"]
    ELSE IF ~Readable(file) THEN Raise("FileNotFoundError")
    ELSE LET pages       == _extract_pages(ReadText(file))
             total_pages == Len(pages)
             err         == SelectionError(page_list, start_page, end_page, total_pages)
             include     == PagesToInclude(page_list, start_page, end_page)
         IN  IF err # "" THEN [error |-> err]
             ELSE [file        |-> file,
                   total_pages |-> total_pages,
                   segments    |->
                       [k \in 1..Len(include) |->
                           [page             |-> include[k],
                            estimated_tokens |-> Len(pages[include[k]]) \div 4,
                            content          |-> Truncate(pages[include[k]], max_chars)]]]

_segment_file(file, page_list, start_page, end_page, max_chars) ==
    IF file \notin DOMAIN file_cache THEN [error |-> "not found in cache"]
    ELSE IF ~Readable(file) THEN Raise("FileNotFoundError")
    ELSE LET pages       == _extract_pages(CleanText(file))
             total_pages == Len(pages)
             err         == SelectionError(page_list, start_page, end_page, total_pages)
             include     == PagesToInclude(page_list, start_page, end_page)
         IN  IF err # "" THEN [error |-> err]
             ELSE [file        |-> file,
                   total_pages |-> total_pages,
                   segments    |->
                       [k \in 1..Len(include) |->
                           [page             |-> include[k],
                            estimated_tokens |-> Len(pages[include[k]]) \div 4,
                            content          |-> Truncate(pages[include[k]], max_chars)]]]

(***************************************************************************)
(* _estimate_tokens                                                        *)
(***************************************************************************)
TokenBudget == 100000

RECURSIVE SumSeq(_)
SumSeq(s) == IF s = <<>> THEN 0 ELSE Head(s) + SumSeq(Tail(s))

\* a slip: the characters of the selected pages are summed, not their tokens
PageTokensUndivided(file, selected_pages) ==
    LET pages == _extract_pages(CleanText(file))
    IN  SumSeq([k \in 1..Len(selected_pages) |->
                   IF 1 <= selected_pages[k] /\ selected_pages[k] <= Len(pages)
                   THEN Len(pages[selected_pages[k]])
                   ELSE 0])

\* the tokens of the selected pages, pages out of range count nothing
PageTokens(file, selected_pages) ==
    LET pages == _extract_pages(CleanText(file))
    IN  SumSeq([k \in 1..Len(selected_pages) |->
                   IF 1 <= selected_pages[k] /\ selected_pages[k] <= Len(pages)
                   THEN Len(pages[selected_pages[k]]) \div 4
                   ELSE 0])

\* selections is None or Some(list of <<file, pages>> with distinct files)
SelectionKeys(selections) ==
    IF selections = NoneV THEN {}
    ELSE {selections[1][k][1] : k \in 1..Len(selections[1])}

SelectedPages(selections, file) ==
    LET k == CHOOSE k \in 1..Len(selections[1]) : selections[1][k][1] = file
    IN  selections[1][k][2]

\* a variant that opens every cached file, selected or not
EstimateEntryReading(file, selections) ==
    IF file \notin DOMAIN file_cache
    THEN [file |-> file, error |-> "File not found in cache"]
    ELSE IF ~Readable(file) THEN Raise("FileNotFoundError")
    ELSE IF file \in SelectionKeys(selections)
    THEN [file             |-> file,
          selected_pages   |-> SelectedPages(selections, file),
          estimated_tokens |-> PageTokens(file, SelectedPages(selections, file))]
    ELSE [file |-> file, estimated_tokens |-> file_cache[file].estimated_tokens]

\* one entry of file_estimates, or the exception raised while computing it
EstimateEntry(file, selections) ==
    IF file \notin DOMAIN file_cache
    THEN [file |-> file, error |-> "File not found in cache"]
    ELSE IF file \in SelectionKeys(selections)
    THEN IF ~Readable(file) THEN Raise("FileNotFoundError")
         ELSE [file             |-> file,
               selected_pages   |-> SelectedPages(selections, file),
               estimated_tokens |-> PageTokens(file, SelectedPages(selections, file))]
    ELSE [file |-> file, estimated_tokens |-> file_cache[file].estimated_tokens]

_estimate_tokens(files, selections) ==
    LET processed_files == {files[k] : k \in {k \in 1..Len(files) :
                                               files[k] \in DOMAIN file_cache}}
        extra   == IF selections = NoneV THEN <<>>
                   ELSE SelectSeq([k \in 1..Len(selections[1]) |-> selections[1][k][1]],
                                  LAMBDA f : f \notin processed_files)
        order   == files \o extra
        entries == [k \in 1..Len(order) |-> EstimateEntry(order[k], selections)]
        raised  == {k \in 1..Len(entries) : "raised" \in DOMAIN entries[k]}
        total_tokens == SumSeq([k \in 1..Len(entries) |->
                                   IF "estimated_tokens" \in DOMAIN entries[k]
                                   THEN entries[k].estimated_tokens ELSE 0])
    IN  IF raised # {} THEN Raise("FileNotFoundError")
        ELSE [total_estimated_tokens |-> total_tokens,
              files   |-> entries,
              warning |-> IF total_tokens > TokenBudget THEN Some("Over 100k tokens") ELSE NoneV]

(***************************************************************************)
(* _read_file                                                              *)
(***************************************************************************)
\* str(n) for n >= 0
RECURSIVE Decimal(_)
Decimal(n) ==
    IF n < 10 THEN <<ToString(n)>> ELSE Decimal(n \div 10) \o <<ToString(n % 10)>>

\* f"# Page {page_num}\n{body}"
WithMarker(page_num, body) == MarkerPrefix \o Decimal(page_num) \o <<NL>> \o body

\* a slip: a page read reports the counts of the file's record
_read_file_cached_counts(file, page_list, start_page_arg, end_page_arg) ==
    IF file \notin DOMAIN file_cache THEN [error |-> "not found in cache"]
    ELSE IF ~Readable(file) THEN Raise("FileNotFoundError")
    ELSE LET metadata == file_cache[file]
             content  == CleanText(file)
             page_contents == _extract_pages(content)
             total_pages   == Len(page_contents)
             start_page == IF start_page_arg = NoneV THEN 1 ELSE start_page_arg[1]
             end_page   == IF end_page_arg = NoneV THEN total_pages ELSE end_page_arg[1]
             err        == SelectionError(page_list, start_page, end_page, total_pages)
             include    == PagesToInclude(page_list, start_page, end_page)
             final_content ==
                 Join(<<NL, NL>>,
                      [k \in 1..Len(include) |->
                          WithMarker(include[k], page_contents[include[k]])])
         IN  IF page_list = NoneV /\ start_page_arg = NoneV /\ end_page_arg = NoneV
             THEN [file             |-> file,
                   mode             |-> "full",
                   char_count       |-> metadata.char_count,
                   estimated_tokens |-> metadata.estimated_tokens,
                   content          |-> content]
             ELSE IF err # "" THEN [error |-> err]
             ELSE [file             |-> file,
                   mode             |-> IF page_list # NoneV
                                        THEN <<"pages", page_list[1]>>
                                        ELSE <<"pages", start_page, end_page>>,
                   selected_pages   |-> include,
                   char_count       |-> metadata.char_count,
                   estimated_tokens |-> metadata.estimated_tokens,
                   content          |-> final_content]

\* page_list is None or Some(list), start_page and end_page None or Some(int)
_read_file(file, page_list, start_page_arg, end_page_arg) ==
    IF file \notin DOMAIN file_cache THEN [error |-> "not found in cache"]
    ELSE IF ~Readable(file) THEN Raise("FileNotFoundError")
    ELSE LET metadata == file_cache[file]
             content  == CleanText(file)
             page_contents == _extract_pages(content)
             total_pages   == Len(page_contents)
             start_page == IF start_page_arg = NoneV THEN 1 ELSE start_page_arg[1]
             end_page   == IF end_page_arg = NoneV THEN total_pages ELSE end_page_arg[1]
             err        == SelectionError(page_list, start_page, end_page, total_pages)
             include    == PagesToInclude(page_list, start_page, end_page)
             final_content ==
                 Join(<<NL, NL>>,
                      [k \in 1..Len(include) |->
                          WithMarker(include[k], page_contents[include[k]])])
         IN  IF page_list = NoneV /\ start_page_arg = NoneV /\ end_page_arg = NoneV
             THEN [file             |-> file,
                   mode             |-> "full",
                   char_count       |-> metadata.char_count,
                   estimated_tokens |-> metadata.estimated_tokens,
                   content          |-> content]
             ELSE IF err # "" THEN [error |-> err]
             ELSE [file             |-> file,
                   mode             |-> IF page_list # NoneV
                                        THEN <<"pages", page_list[1]>>
                                        ELSE <<"pages", start_page, end_page>>,
                   selected_pages   |-> include,
                   char_count       |-> Len(final_content),
                   estimated_tokens |-> Len(final_content) \div 4,
                   content          |-> final_content]

(***************************************************************************)
(* The tool functions: each calls its core function inside try/except and  *)
(* returns {"error": str(e)} for an exception                              *)
(***************************************************************************)
Respond(op, args, r) ==
    IF "raised" \in DOMAIN r
    THEN [op |-> op, args |-> args, error |-> r.raised]
    ELSE [op |-> op, args |-> args] @@ r

IsError(r) == "error" \in DOMAIN r

(***************************************************************************)
(* The tool functions.  The server handles one call at a time: ret is Idle *)
(* between calls and holds the response of a call until the caller has     *)
(* taken it.                                                               *)
(***************************************************************************)

ReadOps == {"find_files_by_name", "search_transcript_content",
            "preview_transcript_lines", "get_page_segments",
            "calculate_token_usage", "read_transcript_file"}

NameA == <<"A">> \o MdSuffix

NameB == <<"b">> \o MdSuffix

NameT == <<"A", ".", "t", "x", "t">>

\* a path no sync has ever seen
UnknownPath == <<"d1", <<"z">> \o MdSuffix>>

\* argument values the calls are made with
Queries == {<<"a">>, <<".", "m">>, <<"(">>}

FileArgs == DOMAIN file_cache \cup {UnknownPath}

\* files lists: one cached path with a path that is not cached, and one
\* cached path named SafeLimit + 1 times
FileListArgs ==
    {NoneV} \cup
    (IF file_cache = EmptyCache THEN {Some(<<UnknownPath>>)}
     ELSE LET f == CHOOSE f \in DOMAIN file_cache : TRUE
          IN  {Some(<<f, UnknownPath>>), Some([k \in 1..(SafeLimit + 1) |-> f])})

PageListArgs == {Some(<<>>), Some(<<1>>), Some(<<2, 1>>), Some(<<3>>)}

PageArgs == 0..2

OptPageArgs == {NoneV} \cup {Some(n) : n \in 1..2}

LineArgs == 0..2

OptLineArgs == {NoneV, Some(1), Some(2), Some(5)}

MaxCharsArgs == {-1, 4, 500}

SelectionArgs(f) ==
    {NoneV, Some(<<>>), Some(<<<<f, <<>>>>>>), Some(<<<<f, <<1>>>>>>),
     Some(<<<<f, <<2>>>>>>), Some(<<<<f, <<2, 2>>>>>>),
     Some(<<<<f, <<1, 3>>>>, <<UnknownPath, <<1>>>>>>)}

find_files_by_name ==
    /\ ret = Idle
    /\ \E query \in Queries, regex \in BOOLEAN, safe \in BOOLEAN :
          ret' = Respond("find_files_by_name",
                         [query |-> query, regex |-> regex, safe |-> safe],
                         _search_filenames(query, regex, safe))
    /\ UNCHANGED <<disk, docs, file_cache, indexed, quiet>>

search_transcript_content ==
    /\ ret = Idle
    /\ \E query \in Queries, files \in FileListArgs, regex \in BOOLEAN,
          with_snippets \in BOOLEAN, safe \in BOOLEAN :
          ret' = Respond("search_transcript_content",
                         [query |-> query, files |-> files, regex |-> regex,
                          with_snippets |-> with_snippets, safe |-> safe],
                         _search_content(query, files, regex, with_snippets, safe))
    /\ UNCHANGED <<disk, docs, file_cache, indexed, quiet>>

preview_transcript_lines ==
    /\ ret = Idle
    /\ \E file \in FileArgs, start_line \in LineArgs, end_line \in OptLineArgs,
          safe \in BOOLEAN :
          /\ file = UnknownPath => start_line = 1 /\ end_line = NoneV /\ safe
          /\ ret' = Respond("preview_transcript_lines",
                            [file |-> file, start_line |-> start_line,
                             end_line |-> end_line, safe |-> safe],
                            _preview_file(file, start_line, end_line, safe))
    /\ UNCHANGED <<disk, docs, file_cache, indexed, quiet>>

get_page_segments ==
    /\ ret = Idle
    /\ \E file \in FileArgs, page_list \in {NoneV} \cup PageListArgs,
          start_page \in PageArgs, end_page \in PageArgs, max_chars \in MaxCharsArgs :
          /\ page_list # NoneV => start_page = 1 /\ end_page = 2
          /\ file = UnknownPath => page_list = NoneV /\ start_page = 1 /\ end_page = 2
          /\ ret' = Respond("get_page_segments",
                            [file |-> file, page_list |-> page_list,
                             start_page |-> start_page, end_page |-> end_page,
                             max_chars |-> max_chars],
                            _segment_file(file, page_list, start_page, end_page, max_chars))
    /\ UNCHANGED <<disk, docs, file_cache, indexed, quiet>>

\* a variant that keeps the page estimate it computed in the file's record
calculate_token_usage_memoizing ==
    /\ ret = Idle
    /\ \E f \in FileArgs :
       \E files \in {<<>>, <<f>>, <<f, f>>}, selections \in SelectionArgs(f) :
          /\ f = UnknownPath =>
                /\ files = <<f>>
                /\ selections \in {NoneV, Some(<<<<f, <<1>>>>>>)}
          /\ ret' = Respond("calculate_token_usage",
                            [files |-> files, selections |-> selections],
                            _estimate_tokens(files, selections))
          /\ file_cache' =
                IF /\ f \in DOMAIN file_cache
                   /\ Readable(f)
                   /\ f \in SelectionKeys(selections)
                THEN [file_cache EXCEPT ![f].estimated_tokens =
                         PageTokens(f, SelectedPages(selections, f))]
                ELSE file_cache
    /\ UNCHANGED <<disk, docs, indexed, quiet>>

calculate_token_usage ==
    /\ ret = Idle
    /\ \E f \in FileArgs :
       \E files \in {<<>>, <<f>>, <<f, f>>}, selections \in SelectionArgs(f) :
          /\ f = UnknownPath =>
                /\ files = <<f>>
                /\ selections \in {NoneV, Some(<<<<f, <<1>>>>>>)}
          /\ ret' = Respond("calculate_token_usage",
                            [files |-> files, selections |-> selections],
                            _estimate_tokens(files, selections))
    /\ UNCHANGED <<disk, docs, file_cache, indexed, quiet>>

\* a variant that refreshes the cached char_count from the text it read
read_transcript_file_refreshing ==
    /\ ret = Idle
    /\ \E file \in FileArgs, page_list \in {NoneV} \cup PageListArgs,
          start_page \in OptPageArgs, end_page \in OptPageArgs :
          /\ page_list # NoneV => start_page = NoneV /\ end_page = NoneV
          /\ file = UnknownPath => page_list = NoneV /\ start_page = NoneV
          /\ ret' = Respond("read_transcript_file",
                            [file |-> file, page_list |-> page_list,
                             start_page |-> start_page, end_page |-> end_page],
                            _read_file(file, page_list, start_page, end_page))
          /\ file_cache' =
                IF file \in DOMAIN file_cache /\ Readable(file)
                THEN [file_cache EXCEPT ![file].char_count = Len(CleanText(file))]
                ELSE file_cache
    /\ UNCHANGED <<disk, docs, indexed, quiet>>

read_transcript_file ==
    /\ ret = Idle
    /\ \E file \in FileArgs, page_list \in {NoneV} \cup PageListArgs,
          start_page \in OptPageArgs, end_page \in OptPageArgs :
          /\ page_list # NoneV => start_page = NoneV /\ end_page = NoneV
          /\ file = UnknownPath => page_list = NoneV /\ start_page = NoneV
          /\ ret' = Respond("read_transcript_file",
                            [file |-> file, page_list |-> page_list,
                             start_page |-> start_page, end_page |-> end_page],
                            _read_file(file, page_list, start_page, end_page))
    /\ UNCHANGED <<disk, docs, file_cache, indexed, quiet>>

Return ==
    /\ ret # Idle
    /\ ret' = Idle
    /\ UNCHANGED <<disk, docs, file_cache, indexed, quiet>>

(***************************************************************************)
(* The environment: files are created, rewritten and deleted               *)
(***************************************************************************)
MaxMtime == 2

Mtimes == 0..MaxMtime

MARK(d) == MarkerPrefix \o <<d>>

Word == <<"a", "b", "c", "d">>

Text1 == MARK("1") \o <<NL>> \o Word

Text2 == <<"a", "b", SP, SP, "c", "d", CR, NL>>

WriteFile(p, content, mtime) ==
    /\ disk' = [q \in DOMAIN disk \cup {p} |->
                   IF q = p THEN [mtime |-> mtime, content |-> content] ELSE disk[q]]
    /\ ret' = Idle
    /\ quiet' = quiet \ {p[1]}
    /\ UNCHANGED <<docs, file_cache, indexed>>

DeleteFile(p) ==
    /\ p \in DOMAIN disk
    /\ disk' = [q \in DOMAIN disk \ {p} |-> disk[q]]
    /\ ret' = Idle
    /\ quiet' = quiet \ {p[1]}
    /\ UNCHANGED <<docs, file_cache, indexed>>

(***************************************************************************)
(* Spec: two directories and a missing one; files come, change and go      *)
(* between syncs                                                           *)
(***************************************************************************)
BasicContents == {Text1, Text2}

BasicPaths == {<<"d1", NameA>>, <<"d1", NameB>>}

OtherPath == <<"d2", NameA>>

EnvWrite == \E p \in BasicPaths, c \in BasicContents, m \in Mtimes : WriteFile(p, c, m)

EnvWriteOther == WriteFile(OtherPath, Text2, 0)

EnvDelete == \E p \in BasicPaths \cup {OtherPath} : DeleteFile(p)

Init ==
    /\ disk = [p \in {<<"d1", NameT>>} |-> [mtime |-> 0, content |-> Text1]]
    /\ docs = [d \in Dirs |-> NoDoc]
    /\ file_cache = EmptyCache
    /\ indexed = <<>>
    /\ quiet = {}
    /\ ret = Idle

Next ==
    \/ EnvWrite
    \/ EnvWriteOther
    \/ EnvDelete
    \/ sync_directory
    \/ Return

Spec == Init /\ [][Next]_vars

(***************************************************************************)
(* SpecPages: one transcript whose text is any sequence of a few lines,    *)
(* every read-time operation                                               *)
(***************************************************************************)
MaxChunks == 3

Chunks == {MARK("1") \o <<NL>>, Word, Text2}

RECURSIVE TextsOf(_)
TextsOf(n) ==
    IF n = 0 THEN {<<>>}
    ELSE TextsOf(n - 1) \cup {t \o c : t \in TextsOf(n - 1), c \in Chunks}

PageFile == <<"d1", NameA>>

TwoPages == MARK("1") \o <<NL>> \o Word \o Word \o <<NL>> \o MARK("2") \o <<NL>> \o Word

InitPages ==
    /\ \E t \in TextsOf(MaxChunks) :
          disk = [p \in {PageFile} |-> [mtime |-> 0, content |-> t]]
    /\ docs = [d \in Dirs |-> NoDoc]
    /\ file_cache = EmptyCache
    /\ indexed = <<>>
    /\ quiet = {}
    /\ ret = Idle

PagesRewrite == \E m \in {0, MaxMtime} : WriteFile(PageFile, TwoPages, m)

PagesDelete == DeleteFile(PageFile)

PagesSync == _sync_files("d1")

NextPages ==
    \/ PagesRewrite
    \/ PagesDelete
    \/ PagesSync
    \/ find_files_by_name
    \/ search_transcript_content
    \/ preview_transcript_lines
    \/ get_page_segments
    \/ calculate_token_usage
    \/ read_transcript_file
    \/ Return

SpecPages == InitPages /\ [][NextPages]_vars

(***************************************************************************)
(* SpecReads: the operations of SpecPages on a transcript of at most       *)
(* MaxReadChunks lines at the start; the rewrite still installs the        *)
(* two-page text                                                           *)
(***************************************************************************)
MaxReadChunks == 2

InitReads ==
    /\ \E t \in TextsOf(MaxReadChunks) :
          disk = [p \in {PageFile} |-> [mtime |-> 0, content |-> t]]
    /\ docs = [d \in Dirs |-> NoDoc]
    /\ file_cache = EmptyCache
    /\ indexed = <<>>
    /\ quiet = {}
    /\ ret = Idle

SpecReads == InitReads /\ [][NextPages]_vars

(***************************************************************************)
(* SpecGuard: a directory of up to MaxGuardFiles transcripts, enough to    *)
(* cross the safe limit of the two searches.  The first k files are named  *)
(* "A?.md" and contain the letter a on two lines, the others are named     *)
(* "b?.md" and do not contain it.                                          *)
(***************************************************************************)
MaxGuardFiles == 12

Letters == <<"c", "e", "f", "g", "h", "i", "j", "k", "l", "n", "o", "p", "q",
             "r", "s", "t", "u", "v">>

HitText == <<"a", NL, "a", "m">>

MissText == <<"z">>

GuardName(i, k) == <<IF i <= k THEN "A" ELSE "b", Letters[i]>> \o MdSuffix

GuardDisk(n, k) ==
    [p \in {<<"d1", GuardName(i, k)>> : i \in 1..n} |->
        [mtime   |-> 0,
         content |-> IF p[2][1] = "A" THEN HitText ELSE MissText]]

InitGuard ==
    /\ \E n \in 0..MaxGuardFiles : \E k \in 0..n : disk = GuardDisk(n, k)
    /\ docs = [d \in Dirs |-> NoDoc]
    /\ file_cache = EmptyCache
    /\ indexed = <<>>
    /\ quiet = {}
    /\ ret = Idle

GuardSync == _sync_files("d1")

\* one cached transcript disappears from the disk
GuardDelete ==
    /\ file_cache # EmptyCache
    /\ DOMAIN disk = DOMAIN file_cache
    /\ DeleteFile(CHOOSE p \in DOMAIN file_cache : TRUE)

NextGuard ==
    \/ GuardSync
    \/ GuardDelete
    \/ find_files_by_name
    \/ search_transcript_content
    \/ Return

SpecGuard == InitGuard /\ [][NextGuard]_vars

(***************************************************************************)
(* SpecCorrupt: the cache document of d1 is damaged between syncs          *)
(***************************************************************************)
\* the document is overwritten with text that is not JSON
CorruptDocument ==
    /\ docs["d1"] # NoDoc
    /\ docs["d1"] # BadJson
    /\ docs' = [docs EXCEPT !["d1"] = BadJson]
    /\ ret' = Idle
    /\ quiet' = quiet \ {"d1"}
    /\ UNCHANGED <<disk, file_cache, indexed>>

\* one record of the document loses its last_modified field
DropTimestamp ==
    /\ docs["d1"] # NoDoc
    /\ docs["d1"] # BadJson
    /\ \E p \in DOMAIN docs["d1"] :
          /\ "last_modified" \in DOMAIN docs["d1"][p]
          /\ docs' = [docs EXCEPT !["d1"] =
                         [q \in DOMAIN docs["d1"] |->
                             IF q = p
                             THEN [f \in DOMAIN docs["d1"][p] \ {"last_modified"} |->
                                      docs["d1"][p][f]]
                             ELSE docs["d1"][q]]]
    /\ ret' = Idle
    /\ quiet' = quiet \ {"d1"}
    /\ UNCHANGED <<disk, file_cache, indexed>>

\* the document is deleted
RemoveDocument ==
    /\ docs["d1"] # NoDoc
    /\ docs' = [docs EXCEPT !["d1"] = NoDoc]
    /\ ret' = Idle
    /\ quiet' = quiet \ {"d1"}
    /\ UNCHANGED <<disk, file_cache, indexed>>

CorruptSync == _sync_files("d1")

CorruptWrite == \E p \in BasicPaths, m \in Mtimes : WriteFile(p, Text1, m)

CorruptDelete == \E p \in BasicPaths : DeleteFile(p)

NextCorrupt ==
    \/ CorruptWrite
    \/ CorruptDelete
    \/ CorruptDocument
    \/ DropTimestamp
    \/ RemoveDocument
    \/ CorruptSync
    \/ Return

SpecCorrupt == Init /\ [][NextCorrupt]_vars

(***************************************************************************)
(* SpecTools: supersearch_tools.py, the revision that offers the same      *)
(* operations as plain functions.  Its sync_files and search_content have  *)
(* the statements of _sync_files and of _search_content without files, and *)
(* no try/except stands between them and the caller.                       *)
(***************************************************************************)
\* what the caller of a plain function gets: its result, or its exception
Escapes(op, args, r) ==
    IF "raised" \in DOMAIN r
    THEN [op |-> op, args |-> args, escaped |-> r.raised]
    ELSE [op |-> op, args |-> args] @@ r

sync_files == _sync_files("d1")

search_content ==
    /\ ret = Idle
    /\ \E query \in Queries, regex \in BOOLEAN, with_snippets \in BOOLEAN,
          safe \in BOOLEAN :
          ret' = Escapes("search_content",
                         [query |-> query, regex |-> regex,
                          with_snippets |-> with_snippets, safe |-> safe],
                         _search_content(query, NoneV, regex, with_snippets, safe))
    /\ UNCHANGED <<disk, docs, file_cache, indexed, quiet>>

ToolsWrite == \E p \in BasicPaths, c \in BasicContents, m \in Mtimes : WriteFile(p, c, m)

ToolsDelete == \E p \in BasicPaths : DeleteFile(p)

NextTools ==
    \/ ToolsWrite
    \/ ToolsDelete
    \/ sync_files
    \/ search_content
    \/ Return

SpecTools == Init /\ [][NextTools]_vars

(***************************************************************************)
(* SpecClean: _clean_content is called on every text of up to MaxCleanLen  *)
(* characters that its rewriting steps look at, and then on its own output *)
(***************************************************************************)
MaxCleanLen == 5

CleanAlphabet == {SP, TAB, NL, CR, ".", "-"}

RECURSIVE StringsUpTo(_)
StringsUpTo(n) ==
    IF n = 0 THEN {<<>>}
    ELSE StringsUpTo(n - 1) \cup
         {<<c>> \o t : c \in CleanAlphabet, t \in {u \in StringsUpTo(n - 1) : Len(u) = n - 1}}

InitClean ==
    /\ \E t \in StringsUpTo(MaxCleanLen) :
          disk = [p \in {PageFile} |-> [mtime |-> 0, content |-> t]]
    /\ docs = [d \in Dirs |-> NoDoc]
    /\ file_cache = EmptyCache
    /\ indexed = <<>>
    /\ quiet = {}
    /\ ret = Idle

\* _clean_content(content) on the text at hand
CleanCall ==
    /\ ret = Idle
    /\ ret' = [op   |-> "_clean_content",
               args |-> [content |-> disk[PageFile].content],
               out  |-> _clean_content(disk[PageFile].content)]
    /\ UNCHANGED <<disk, docs, file_cache, indexed, quiet>>

\* _clean_content(content) on what the previous call returned
CleanAgain ==
    /\ ret.op = "_clean_content"
    /\ ret.args.content # ret.out
    /\ ret' = [op   |-> "_clean_content",
               args |-> [content |-> ret.out],
               out  |-> _clean_content(ret.out)]
    /\ UNCHANGED <<disk, docs, file_cache, indexed, quiet>>

NextClean ==
    \/ CleanCall
    \/ CleanAgain
    \/ Return

SpecClean == InitClean /\ [][NextClean]_vars

(***************************************************************************)
(* SpecPreview: one transcript whose cleaned text has about PreviewLimit   *)
(* characters, on one line or on two, synced and previewed                 *)
(***************************************************************************)
MaxOver == 1

LongLine(n) == [i \in 1..n |-> "a"]

\* lengths from one below the limit to MaxOver above it
NearLimit == (PreviewLimit - 1)..(PreviewLimit + MaxOver)

\* one line of n characters; two lines of n characters with the newline;
\* n + 1 stored characters that cleaning brings down to n
PreviewTexts ==
    {LongLine(n) : n \in NearLimit}
        \cup {LongLine(1000) \o <<NL>> \o LongLine(n - 1001) : n \in NearLimit}
        \cup {<<"a", SP, SP>> \o LongLine(n - 2) : n \in NearLimit}

InitPreview ==
    /\ \E t \in PreviewTexts :
          disk = [p \in {PageFile} |-> [mtime |-> 0, content |-> t]]
    /\ docs = [d \in Dirs |-> NoDoc]
    /\ file_cache = EmptyCache
    /\ indexed = <<>>
    /\ quiet = {}
    /\ ret = Idle

PreviewSync == _sync_files("d1")

NextPreview ==
    \/ PreviewSync
    \/ preview_transcript_lines
    \/ Return

SpecPreview == InitPreview /\ [][NextPreview]_vars

(***************************************************************************)
(* SpecBudget: a transcript of 1000 tokens and one of 1 token, estimated   *)
(* through lists that name the first up to MaxRepeat times, by the server  *)
(* and by the estimate_tokens of supersearch_tools.py                      *)
(***************************************************************************)
MaxRepeat == 101

BigFile == <<"d1", NameA>>

SmallFile == <<"d1", NameB>>

BudgetDisk ==
    [p \in {BigFile, SmallFile} |->
        [mtime   |-> 0,
         content |-> IF p = BigFile THEN LongLine(4000) ELSE Word]]

Repeat(f, n) == [i \in 1..n |-> f]

BudgetFiles ==
    {Repeat(BigFile, n) \o rest : n \in 0..MaxRepeat, rest \in {<<>>, <<SmallFile>>}}

BudgetSelections == {NoneV, Some(<<<<SmallFile, <<1>>>>>>)}

ToolsTokenBudget == 50000

\* estimate_tokens of supersearch_tools.py: the files list only
estimate_tokens(files, selections) ==
    LET entries == [k \in 1..Len(files) |-> EstimateEntry(files[k], selections)]
        raised  == {k \in 1..Len(entries) : "raised" \in DOMAIN entries[k]}
        total_tokens == SumSeq([k \in 1..Len(entries) |->
                                   IF "estimated_tokens" \in DOMAIN entries[k]
                                   THEN entries[k].estimated_tokens ELSE 0])
    IN  IF raised # {} THEN Raise("FileNotFoundError")
        ELSE [total_estimated_tokens |-> total_tokens,
              files   |-> entries,
              warning |-> IF total_tokens > ToolsTokenBudget
                          THEN Some("Over 50k tokens") ELSE NoneV]

InitBudget ==
    /\ disk = BudgetDisk
    /\ docs = [d \in Dirs |-> NoDoc]
    /\ file_cache = EmptyCache
    /\ indexed = <<>>
    /\ quiet = {}
    /\ ret = Idle

BudgetSync == _sync_files("d1")

BudgetEstimate ==
    /\ ret = Idle
    /\ \E files \in BudgetFiles, selections \in BudgetSelections :
          ret' = Respond("calculate_token_usage",
                         [files |-> files, selections |-> selections],
                         _estimate_tokens(files, selections))
    /\ UNCHANGED <<disk, docs, file_cache, indexed, quiet>>

BudgetEstimateTools ==
    /\ ret = Idle
    /\ \E files \in BudgetFiles, selections \in BudgetSelections :
          ret' = Escapes("estimate_tokens",
                         [files |-> files, selections |-> selections],
                         estimate_tokens(files, selections))
    /\ UNCHANGED <<disk, docs, file_cache, indexed, quiet>>

NextBudget ==
    \/ BudgetSync
    \/ BudgetEstimate
    \/ BudgetEstimateTools
    \/ Return

SpecBudget == InitBudget /\ [][NextBudget]_vars

(***************************************************************************)
(* SpecOverlap: two callers run _sync_files at once.  Nothing in the       *)
(* function excludes another call: each statement reads or writes the      *)
(* module-level file_cache by its global name.  A call is three kinds of   *)
(* steps: the load and the directory test (l.88-97), one pass of the loop  *)
(* per file (l.103-137), the save (l.140-141).  Here ret holds, for each   *)
(* caller, the position and the locals of its call, and the history of     *)
(* whether two calls were ever in progress together; the histories         *)
(* indexed and quiet are not kept.                                         *)
(***************************************************************************)
Callers == {"c1", "c2"}

NotCalling == [pc |-> "idle"]

OverlapDisk ==
    (<<"d1", NameA>> :> [mtime |-> 0, content |-> Text1]) @@
    (<<"d1", NameB>> :> [mtime |-> 0, content |-> Text2]) @@
    (<<"d2", NameA>> :> [mtime |-> 0, content |-> Text2])

InitOverlap ==
    /\ disk = OverlapDisk
    /\ docs = [d \in Dirs |-> NoDoc]
    /\ file_cache = EmptyCache
    /\ indexed = <<>>
    /\ quiet = {}
    /\ ret = [overlapped |-> FALSE, call |-> [c \in Callers |-> NotCalling]]

InProgress(c) == ret.call[c].pc = "scan"

\* l.88-97: the cache is replaced by the directory's document or by {};
\* a missing directory ends the call
SyncBegin(c, d) ==
    /\ ret.call[c].pc = "idle"
    /\ file_cache' = LoadCache(d)
    /\ ret' = [overlapped |-> ret.overlapped \/ \E o \in Callers \ {c} : InProgress(o),
               call |-> [ret.call EXCEPT ![c] =
                            IF DirExists(d)
                            THEN [pc |-> "scan", dir |-> d, todo |-> Glob(d),
                                  upserted |-> {}]
                            ELSE [pc |-> "done", dir |-> d, upserted |-> {},
                                  error |-> "Directory does not exist"]]]
    /\ UNCHANGED <<disk, docs, indexed, quiet>>

\* l.103-137: one pass of the loop, for a file the glob yields next, on the
\* cache the global name refers to now
SyncScanFile(c) ==
    /\ InProgress(c)
    /\ \E p \in ret.call[c].todo :
          /\ file_cache' = ScanFiles(file_cache, {p})
          /\ ret' = [ret EXCEPT !.call[c].todo = @ \ {p},
                                !.call[c].upserted =
                                    IF is_new(file_cache, p) \/ is_modified(file_cache, p)
                                    THEN @ \cup {p}
                                    ELSE @]
    /\ UNCHANGED <<disk, docs, indexed, quiet>>

\* l.140-148: the cache the global name refers to now is written to the
\* document of the call's directory
SyncSave(c) ==
    /\ InProgress(c)
    /\ ret.call[c].todo = {}
    /\ docs' = [docs EXCEPT ![ret.call[c].dir] = file_cache]
    /\ ret' = [ret EXCEPT !.call[c] =
                  [pc           |-> "done",
                   dir          |-> ret.call[c].dir,
                   upserted     |-> ret.call[c].upserted,
                   total_cached |-> Cardinality(DOMAIN file_cache)]]
    /\ UNCHANGED <<disk, file_cache, indexed, quiet>>

\* the caller has its response
SyncReturn(c) ==
    /\ ret.call[c].pc = "done"
    /\ ret' = [ret EXCEPT !.call[c] = NotCalling]
    /\ UNCHANGED <<disk, docs, file_cache, indexed, quiet>>

NextOverlap ==
    \/ \E c \in Callers, d \in Dirs : SyncBegin(c, d)
    \/ \E c \in Callers : SyncScanFile(c)
    \/ \E c \in Callers : SyncSave(c)
    \/ \E c \in Callers : SyncReturn(c)

SpecOverlap == InitOverlap /\ [][NextOverlap]_vars

(***************************************************************************)
(* Properties of sync, checked under Spec                                  *)
(***************************************************************************)
SyncSucceeded == ret.op = "sync" /\ ~IsError(ret)

\* C1: a sync of a directory that was synced before, with no file of the
\* directory written or deleted since, reports new_files = 0 and
\* updated_files = 0 and writes a cache document equal to the one the
\* earlier sync wrote.
C1_SyncIdempotent ==
    [][\A d \in Dirs :
          (d \in quiet /\ _sync_files(d)) =>
              /\ ~IsError(ret')
              /\ ret'.new_files = 0
              /\ ret'.updated_files = 0
              /\ docs[d] # NoDoc
              /\ docs'[d] = docs[d]]_vars

C1_Witness ==
    /\ SyncSucceeded
    /\ ret.processed = 2
    /\ ret.new_files = 0
    /\ ret.updated_files = 0
    /\ \E p \in DOMAIN file_cache : file_cache[p].last_modified # 0

\* C2: a sync of a directory that does not exist returns an error, leaves
\* the in-memory cache with the records it had before the call and writes
\* no cache document.
C2_MissingDirLeavesCache ==
    [][\A d \in Dirs :
          (~DirExists(d) /\ _sync_files(d)) =>
              /\ IsError(ret')
              /\ file_cache' = file_cache
              /\ docs' = docs]_vars

\* C4: a successful sync replaces the record of a matching file exactly
\* when the path is absent from the loaded cache or the cached
\* last_modified differs from the file's formatted modification time; it
\* counts the absent paths as new_files, the differing ones as
\* updated_files and the matching files as processed, leaves every other
\* record as loaded, and every record it writes has
\* estimated_tokens = char_count // 4.
C4_UpsertAndCounts ==
    [][\A d \in Dirs :
          (DirExists(d) /\ _sync_files(d)) =>
              LET loaded   == IF docs[d] = NoDoc THEN <<>> ELSE docs[d]
                  matching == {p \in DOMAIN disk : p[1] = d /\ IsMd(p[2])}
                  absent   == {p \in matching : p \notin DOMAIN loaded}
                  differ   == {p \in matching \ absent :
                                  loaded[p].last_modified # IsoFormat(disk[p].mtime)}
              IN  /\ ret'.new_files = Cardinality(absent)
                  /\ ret'.updated_files = Cardinality(differ)
                  /\ ret'.processed = Cardinality(matching)
                  /\ ret'.new_files + ret'.updated_files <= ret'.processed
                  /\ DOMAIN file_cache' = DOMAIN loaded \cup matching
                  /\ \A p \in absent \cup differ :
                        /\ file_cache'[p].filename = p[2]
                        /\ file_cache'[p].last_modified = IsoFormat(disk[p].mtime)
                        /\ file_cache'[p].char_count = Len(ReadText(p))
                        /\ file_cache'[p].estimated_tokens
                              = file_cache'[p].char_count \div 4
                        /\ indexed'[p] = ReadText(p)
                  /\ \A p \in DOMAIN loaded \ (absent \cup differ) :
                        /\ file_cache'[p] = loaded[p]
                        /\ indexed'[p] = indexed[p]]_vars

\* one file rebuilt, the other one left as it was
C4_Witness ==
    /\ SyncSucceeded
    /\ ret.processed = 2
    /\ ret.new_files = 0
    /\ ret.updated_files = 1

\* C5 as claimed: every path in the in-memory cache before a successful
\* sync is still in it after the sync.
C5_NoRecordLeavesMemory ==
    [][\A d \in Dirs :
          (_sync_files(d) /\ ~IsError(ret')) =>
              DOMAIN file_cache \subseteq DOMAIN file_cache']_vars

\* C5 amended: every path in the cache a successful sync loads (the
\* directory's cache document before the call) is in the in-memory cache and
\* in the directory's cache document after it, whether or not its file is
\* still on disk; so the number of records kept for a directory never
\* decreases.
C5_SyncKeepsLoadedRecords ==
    [][\A d \in Dirs :
          (_sync_files(d) /\ ~IsError(ret')) =>
              LET loaded == IF docs[d] = NoDoc THEN {} ELSE DOMAIN docs[d]
              IN  /\ loaded \subseteq DOMAIN file_cache'
                  /\ loaded \subseteq DOMAIN docs'[d]
                  /\ ret'.total_cached >= Cardinality(loaded)]_vars

\* a record of a file that is gone from the disk survives a sync
C5_Witness ==
    /\ SyncSucceeded
    /\ \E p \in DOMAIN file_cache : p[1] = ret.dir /\ p \notin DOMAIN disk

(***************************************************************************)
(* Properties of the read-time operations, checked under SpecPages         *)
(***************************************************************************)
\* C3: a step made by findFilesByName, searchContent, previewLines,
\* getPageSegments, estimateTokens or readFile, whatever it returns, leaves
\* the in-memory cache and every persisted cache document unchanged.
C3_ReadOpsLeaveCache ==
    [][ret'.op \in ReadOps => (file_cache' = file_cache /\ docs' = docs)]_vars

\* a read-time operation has failed on a cached file, the cache is there
C3_Witness ==
    /\ ret.op = "read_transcript_file"
    /\ IsError(ret)
    /\ ret.args.file \in DOMAIN file_cache
    /\ docs["d1"] # NoDoc

\* the file is on disk with the text its record was built from
Fresh(f) ==
    /\ f \in DOMAIN file_cache
    /\ f \in DOMAIN disk
    /\ f \in DOMAIN indexed
    /\ ReadText(f) = indexed[f]

\* C8: readFile without page arguments, on a cached file unchanged on disk
\* since it was indexed, returns content whose length is the cached
\* char_count.
C8_ReadLengthIsCharCount ==
    (/\ ret.op = "read_transcript_file"
     /\ ~IsError(ret)
     /\ ret.mode = "full"
     /\ Fresh(ret.args.file)) =>
        /\ Len(ret.content) = file_cache[ret.args.file].char_count
        /\ Len(ret.content) = ret.char_count

\* the response holds the segments of pages 1..N of an N-page file, N >= 1,
\* none of them truncated
AllPagesUntruncated ==
    /\ ret.op = "get_page_segments"
    /\ ~IsError(ret)
    /\ ret.total_pages >= 1
    /\ [k \in 1..Len(ret.segments) |-> ret.segments[k].page]
          = [k \in 1..ret.total_pages |-> k]
    /\ \A k \in 1..Len(ret.segments) :
          Len(ret.segments[k].content) <= ret.args.max_chars

\* C9: when getPageSegments has returned pages 1..N of a file untruncated,
\* readFile with startPage = 1 and endPage = N succeeds on the same file,
\* selects the same pages 1..N, and its content is the segment contents in
\* order, each under its '# Page k' line, joined by blank lines.
C9_SegmentsAreReadPages ==
    AllPagesUntruncated =>
        LET N  == ret.total_pages
            rd == _read_file(ret.args.file, NoneV, Some(1), Some(N))
        IN  /\ ~IsError(rd)
            /\ rd.selected_pages = [k \in 1..N |-> ret.segments[k].page]
            /\ rd.content =
                  Join(<<NL, NL>>,
                       [k \in 1..N |->
                           <<"#", SP, "P", "a", "g", "e", SP>> \o Decimal(k) \o <<NL>>
                               \o ret.segments[k].content])

\* both pages of a two-page file have been returned
C9_Witness ==
    /\ AllPagesUntruncated
    /\ ret.total_pages = 2
    /\ ret.segments[1].content # ret.segments[2].content

\* the response is the estimate of one cached file for a selection that
\* names some, but not all, of the file's pages, each at most once
StrictSelectionEstimated ==
    /\ ret.op = "calculate_token_usage"
    /\ ~IsError(ret)
    /\ Len(ret.args.files) = 1
    /\ ret.args.files[1] \in DOMAIN file_cache
    /\ ret.args.selections # NoneV
    /\ Len(ret.args.selections[1]) = 1
    /\ ret.args.selections[1][1][1] = ret.args.files[1]
    /\ LET sel == ret.args.selections[1][1][2]
           N   == Len(_extract_pages(CleanText(ret.args.files[1])))
       IN  /\ \A k \in 1..Len(sel) : sel[k] \in 1..N
           /\ \A j, k \in 1..Len(sel) : j # k => sel[j] # sel[k]
           /\ Len(sel) < N

\* estimateTokens(files = [f]) without a selection
WholeEstimate(f) == _estimate_tokens(<<f>>, NoneV).files[1].estimated_tokens

\* C10 as claimed: in every reachable state, the estimate for a strict
\* subset of a cached file's pages is at most the whole-file estimate.
C10_SelectionAtMostWhole ==
    StrictSelectionEstimated =>
        ret.files[1].estimated_tokens <= WholeEstimate(ret.args.files[1])

\* C10 amended: the same, for a file that is unchanged on disk since it was
\* indexed.
C10_FreshSelectionAtMostWhole ==
    (StrictSelectionEstimated /\ Fresh(ret.args.files[1])) =>
        ret.files[1].estimated_tokens <= WholeEstimate(ret.args.files[1])

\* one page of a fresh two-page file has been estimated
C10_Witness ==
    /\ StrictSelectionEstimated
    /\ Fresh(ret.args.files[1])
    /\ Len(ret.args.selections[1][1][2]) = 1
    /\ ret.files[1].estimated_tokens >= 1

(***************************************************************************)
(* Properties of the search guardrails, checked under SpecGuard            *)
(***************************************************************************)
\* C6: findFilesByName returns preview = true, with count and message and
\* without results, exactly when safe is set and more than 10 cached
\* filenames match the query; with safe = false it returns preview = false
\* and a results list as long as count, the number of matching filenames.
C6_FilenameGuardrail ==
    (ret.op = "find_files_by_name" /\ ~IsError(ret)) =>
        LET matching == {p \in DOMAIN file_cache :
                            FilenameMatches(ret.args.query, ret.args.regex,
                                            file_cache[p].filename)}
        IN  /\ ret.count = Cardinality(matching)
            /\ ret.preview = (ret.args.safe /\ Cardinality(matching) > 10)
            /\ ret.preview =>
                  /\ "message" \in DOMAIN ret
                  /\ "results" \notin DOMAIN ret
            /\ ~ret.preview =>
                  /\ Len(ret.results) = ret.count
                  /\ {ret.results[k].file : k \in 1..Len(ret.results)} = matching

\* eleven filenames match and the safe search holds the results back
C6_Witness ==
    /\ ret.op = "find_files_by_name"
    /\ ~IsError(ret)
    /\ ret.preview
    /\ ret.count = 11

\* the distinct candidate files whose cleaned text has a match
FilesWithMatch(query, files, regex) ==
    LET candidates == IF files = NoneV THEN DOMAIN file_cache
                      ELSE {files[1][k] : k \in 1..Len(files[1])} \cap DOMAIN file_cache
    IN  {f \in candidates : Len(ContentMatches(query, regex, CleanText(f))) >= 1}

\* C7: a safe searchContent returns the preview envelope exactly when more
\* than 10 files have at least one match.
C7_PreviewIffManyFiles ==
    (ret.op = "search_transcript_content" /\ ~IsError(ret) /\ ret.args.safe) =>
        ret.preview =
            (Cardinality(FilesWithMatch(ret.args.query, ret.args.files,
                                        ret.args.regex)) > 10)

(***************************************************************************)
(* Reads of a file that changed after it was indexed, checked under        *)
(* SpecPages                                                               *)
(***************************************************************************)
\* the cleaned text of the file as it is on disk now
CurrentClean(f) == _clean_content(SubCR(SubCRLF(disk[f].content)))

CurrentPages(f) == _extract_pages(CurrentClean(f))

\* C11: whatever was indexed, a response of readFile (full, pageList or
\* range), previewLines, getPageSegments or searchContent carries the
\* content, the pages, the line count and the match counts of the file's
\* current text on disk.
C11_ContentFromDisk ==
    /\ (ret.op = "read_transcript_file" /\ ~IsError(ret)) =>
          IF "selected_pages" \in DOMAIN ret
          THEN ret.content =
                  Join(<<NL, NL>>,
                       [k \in 1..Len(ret.selected_pages) |->
                           <<"#", SP, "P", "a", "g", "e", SP>>
                               \o Decimal(ret.selected_pages[k]) \o <<NL>>
                               \o CurrentPages(ret.args.file)[ret.selected_pages[k]]])
          ELSE ret.content = CurrentClean(ret.args.file)
    /\ (ret.op = "preview_transcript_lines" /\ ~IsError(ret) /\ ~ret.preview) =>
          LET lines == SplitLines(CurrentClean(ret.args.file))
          IN  /\ ret.total_lines = Len(lines)
              /\ ret.content =
                    Join(<<NL>>, SubSeq(lines, ret.requested_lines[1], ret.requested_lines[2]))
    /\ (ret.op = "get_page_segments" /\ ~IsError(ret)) =>
          /\ ret.total_pages = Len(CurrentPages(ret.args.file))
          /\ \A k \in 1..Len(ret.segments) :
                LET body == CurrentPages(ret.args.file)[ret.segments[k].page]
                IN  ret.segments[k].content =
                        IF Len(body) > ret.args.max_chars
                        THEN SliceTo(body, ret.args.max_chars) \o <<".", ".", ".">>
                        ELSE body
    /\ (ret.op = "search_transcript_content" /\ ~IsError(ret) /\ ~ret.preview) =>
          \A k \in 1..Len(ret.results) :
              ret.results[k].match_count =
                  Len(ContentMatches(ret.args.query, ret.args.regex,
                                     CurrentClean(ret.results[k].file)))

\* a full read of a file whose text is no longer the text that was indexed
C11_Witness ==
    /\ ret.op = "read_transcript_file"
    /\ ~IsError(ret)
    /\ "selected_pages" \notin DOMAIN ret
    /\ indexed[ret.args.file] # SubCR(SubCRLF(disk[ret.args.file].content))
    /\ ret.content # _clean_content(indexed[ret.args.file])

(***************************************************************************)
(* Damaged cache documents, checked under SpecCorrupt                      *)
(***************************************************************************)
\* the document of d is not JSON, or one of its records has no last_modified
Malformed(d) ==
    IF docs[d] = NoDoc THEN FALSE
    ELSE IF docs[d] = BadJson THEN TRUE
    ELSE \E p \in DOMAIN docs[d] : "last_modified" \notin DOMAIN docs[d][p]

\* C13: a sync of a directory whose cache document is malformed does not
\* fail; it ends with a record with a current last_modified for every
\* matching file and with a rewritten, well-formed cache document.
C13_MalformedCacheResynced ==
    [][\A d \in Dirs :
          (DirExists(d) /\ Malformed(d) /\ _sync_files(d)) =>
              /\ ~IsError(ret')
              /\ \A p \in Glob(d) :
                    /\ p \in DOMAIN file_cache'
                    /\ "last_modified" \in DOMAIN file_cache'[p]
                    /\ file_cache'[p].last_modified = IsoFormat(disk[p].mtime)
              /\ docs'[d] = file_cache'
              /\ docs'[d] # docs[d]]_vars

(***************************************************************************)
(* Exceptions at the operation boundary, checked under SpecTools           *)
(***************************************************************************)
\* C12: no call of an operation ends with an exception that reaches the
\* caller; every failure comes back as an error result.
C12_NoExceptionEscapes == "escaped" \notin DOMAIN ret

(***************************************************************************)
(* Read-time operations keep no state of their own, checked under          *)
(* SpecReads                                                               *)
(***************************************************************************)
\* what the call recorded in response r returns when it is made in the
\* current state, as the first call ever or after any others
AnswerNow(r) ==
    Respond(r.op, r.args,
        CASE r.op = "find_files_by_name" ->
                 _search_filenames(r.args.query, r.args.regex, r.args.safe)
          [] r.op = "search_transcript_content" ->
                 _search_content(r.args.query, r.args.files, r.args.regex,
                                 r.args.with_snippets, r.args.safe)
          [] r.op = "preview_transcript_lines" ->
                 _preview_file(r.args.file, r.args.start_line, r.args.end_line,
                               r.args.safe)
          [] r.op = "get_page_segments" ->
                 _segment_file(r.args.file, r.args.page_list, r.args.start_page,
                               r.args.end_page, r.args.max_chars)
          [] r.op = "calculate_token_usage" ->
                 _estimate_tokens(r.args.files, r.args.selections)
          [] r.op = "read_transcript_file" ->
                 _read_file(r.args.file, r.args.page_list, r.args.start_page,
                            r.args.end_page))

\* C14: the response of a read-time call is the value its core function
\* has for the call's arguments, the cache and the disk of the state it is
\* made in, and the call leaves the cache and the disk as they were; so
\* the same call made after it, or after any sequence of read-time calls,
\* returns what it would have returned without them.
C14_ReadOpsKeepNoState ==
    [][ret'.op \in ReadOps =>
          /\ ret' = AnswerNow(ret')
          /\ file_cache' = file_cache
          /\ disk' = disk]_vars

\* a page estimate has been given for a cached file that reads can serve
C14_Witness ==
    /\ ret.op = "calculate_token_usage"
    /\ ~IsError(ret)
    /\ ret.args.selections # NoneV
    /\ Len(ret.files) >= 1
    /\ "selected_pages" \in DOMAIN ret.files[1]
    /\ ret.files[1].estimated_tokens >= 1
    /\ ret = AnswerNow(ret)

(***************************************************************************)
(* The content normalizer, checked under SpecClean                         *)
(***************************************************************************)
\* C15: what _clean_content returns is a text that _clean_content leaves
\* as it is: clean(clean(t)) = clean(t) for every input t.
C15_CleanIdempotent ==
    ret.op = "_clean_content" => _clean_content(ret.out) = ret.out

\* a text with a carriage return, rewritten by the call and not emptied
C15_Witness ==
    /\ ret.op = "_clean_content"
    /\ \E i \in 1..Len(ret.args.content) : ret.args.content[i] = CR
    /\ ret.out # ret.args.content
    /\ Len(ret.out) >= 3

(***************************************************************************)
(* Whole-file estimates, checked under SpecPages                           *)
(***************************************************************************)
\* the files named in the selections of a calculate_token_usage response
SelectedFiles(r) ==
    IF r.args.selections = NoneV THEN {}
    ELSE {r.args.selections[1][k][1] : k \in 1..Len(r.args.selections[1])}

\* C16: estimateTokens fails only when a cached file named in selections
\* cannot be read; when it answers, the entry of a cached file without a
\* selection is the cached estimated_tokens, whether the file is still on
\* disk, changed or deleted.
C16_WholeEstimateFromCache ==
    ret.op = "calculate_token_usage" =>
        IF IsError(ret)
        THEN \E f \in SelectedFiles(ret) \cap DOMAIN file_cache : f \notin DOMAIN disk
        ELSE \A k \in 1..Len(ret.args.files) :
                LET f == ret.args.files[k]
                IN  (f \in DOMAIN file_cache /\ f \notin SelectedFiles(ret)) =>
                        ret.files[k] =
                            [file |-> f,
                             estimated_tokens |-> file_cache[f].estimated_tokens]

\* the whole-file estimate of a cached file that is gone from the disk
C16_Witness ==
    /\ ret.op = "calculate_token_usage"
    /\ ~IsError(ret)
    /\ Len(ret.args.files) >= 1
    /\ ret.args.files[1] \in DOMAIN file_cache
    /\ ret.args.files[1] \notin DOMAIN disk
    /\ ret.args.files[1] \notin SelectedFiles(ret)
    /\ ret.files[1].estimated_tokens >= 1

(***************************************************************************)
(* Line and page ranges, checked under SpecPages                           *)
(***************************************************************************)
\* C17: previewLines on a cached, readable file with startLine outside
\* [1, totalLines] returns an error result and no content.
C17_StartLineValidated ==
    (/\ ret.op = "preview_transcript_lines"
     /\ ret.args.file \in DOMAIN file_cache
     /\ ret.args.file \in DOMAIN disk
     /\ LET total_lines == Len(SplitLines(CurrentClean(ret.args.file)))
        IN  ret.args.start_line < 1 \/ ret.args.start_line > total_lines) =>
        /\ IsError(ret)
        /\ "content" \notin DOMAIN ret

\* how often n occurs in the sequence q
Occurrences(q, n) == Cardinality({k \in 1..Len(q) : q[k] = n})

C19_SegmentSelection ==
    (/\ ret.op = "get_page_segments"
     /\ ret.args.file \in DOMAIN file_cache
     /\ ret.args.file \in DOMAIN disk) =>
        LET N     == Len(CurrentPages(ret.args.file))
            first == ret.args.start_page
            last  == ret.args.end_page
            valid == IF ret.args.page_list # NoneV
                     THEN \A k \in 1..Len(ret.args.page_list[1]) :
                             ret.args.page_list[1][k] \in 1..N
                     ELSE 1 <= first /\ first <= last /\ last <= N
            got   == [k \in 1..Len(ret.segments) |-> ret.segments[k].page]
        IN  IF ~valid
            THEN IsError(ret) /\ "segments" \notin DOMAIN ret
            ELSE /\ ~IsError(ret)
                 /\ ret.total_pages = N
                 /\ \A i, j \in 1..Len(got) : i < j => got[i] <= got[j]
                 /\ IF ret.args.page_list # NoneV
                    THEN \A n \in 1..N : Occurrences(got, n)
                                            = Occurrences(ret.args.page_list[1], n)
                    ELSE got = [k \in 1..(last - first + 1) |-> first + k - 1]

\* pages 2 and 1 were listed and the segments of pages 1 and 2 came back
C19_Witness ==
    /\ ret.op = "get_page_segments"
    /\ ~IsError(ret)
    /\ ret.args.page_list = Some(<<2, 1>>)
    /\ Len(ret.segments) = 2
    /\ ret.segments[1].page = 1
    /\ ret.segments[2].page = 2

\* C20: for a file indexed by sync and unchanged on disk since, the page
\* count of its cache record equals the total_pages that getPageSegments
\* reports for it.
C20_OnePageCount ==
    (/\ ret.op = "get_page_segments"
     /\ ~IsError(ret)
     /\ Fresh(ret.args.file)) =>
        file_cache[ret.args.file].pages = ret.total_pages

(***************************************************************************)
(* The page extractor, checked under SpecPages                             *)
(***************************************************************************)
\* C21: when nothing but white space precedes the first marker of a
\* file's cleaned text, getPageSegments reports as many pages as the text
\* has marker lines, and the segment of page k carries the trimmed text
\* that follows the k-th marker.
C21_PagesArePositional ==
    (/\ ret.op = "get_page_segments"
     /\ ~IsError(ret)
     /\ ret.args.file \in DOMAIN disk
     /\ Strip(SplitMarkers(CurrentClean(ret.args.file))[1]) = <<>>) =>
        LET parts == SplitMarkers(CurrentClean(ret.args.file))
        IN  /\ ret.total_pages = Len(parts) - 1
            /\ \A i \in 1..Len(ret.segments) :
                  LET k == ret.segments[i].page
                  IN  k + 1 <= Len(parts) =>
                        ret.segments[i].content
                            = Truncate(Strip(parts[k + 1]), ret.args.max_chars)

(***************************************************************************)
(* previewLines, checked under SpecPages                                   *)
(***************************************************************************)
\* C22: previewLines on a cached, readable file with startLine in
\* [1, totalLines]: an omitted endLine and an endLine above totalLines
\* count as totalLines; if the endLine is then below startLine the call
\* returns an error; otherwise, unless the guardrail withholds it, the
\* content is the lines startLine..endLine of the cleaned text joined by
\* newlines and returned_lines = endLine - startLine + 1.
C22_EndLineHandling ==
    (/\ ret.op = "preview_transcript_lines"
     /\ ret.args.file \in DOMAIN file_cache
     /\ ret.args.file \in DOMAIN disk
     /\ ret.args.start_line >= 1
     /\ ret.args.start_line <= Len(SplitLines(CurrentClean(ret.args.file)))) =>
        LET lines == SplitLines(CurrentClean(ret.args.file))
            total == Len(lines)
            first == ret.args.start_line
            last  == IF ret.args.end_line = NoneV THEN total
                     ELSE IF ret.args.end_line[1] > total THEN total
                     ELSE ret.args.end_line[1]
            text  == Join(<<NL>>, [k \in 1..(last - first + 1) |-> lines[first + k - 1]])
        IN  IF last < first
            THEN IsError(ret) /\ "content" \notin DOMAIN ret
            ELSE /\ ~IsError(ret)
                 /\ (~ret.args.safe \/ Len(text) <= PreviewLimit) =>
                       /\ ret.content = text
                       /\ ret.returned_lines = last - first + 1
                       /\ ret.total_lines = total

\* lines 2 to 5 were asked of a shorter text of at least three lines and
\* lines 2 to the last came back
C22_Witness ==
    /\ ret.op = "preview_transcript_lines"
    /\ ~IsError(ret)
    /\ ret.args.start_line = 2
    /\ ret.args.end_line = Some(5)
    /\ ret.total_lines \in 3..4
    /\ ret.returned_lines = ret.total_lines - 1

(***************************************************************************)
(* The preview guardrail, checked under SpecPreview                        *)
(***************************************************************************)
\* C23: previewLines on a cached, readable file with a valid line range
\* returns the preview envelope, without a content field, exactly when
\* safe is true and the requested lines joined by newlines are longer than
\* 2000 characters; otherwise it returns them as content, so a content
\* returned with safe = true has at most 2000 characters.
C23_PreviewGuardrail ==
    (/\ ret.op = "preview_transcript_lines"
     /\ ret.args.file \in DOMAIN file_cache
     /\ ret.args.file \in DOMAIN disk) =>
        LET lines == SplitLines(CurrentClean(ret.args.file))
            total == Len(lines)
            first == ret.args.start_line
            last  == IF ret.args.end_line = NoneV THEN total
                     ELSE IF ret.args.end_line[1] > total THEN total
                     ELSE ret.args.end_line[1]
            text  == Join(<<NL>>, [k \in 1..(last - first + 1) |-> lines[first + k - 1]])
        IN  (1 <= first /\ first <= last /\ last <= total) =>
               /\ ~IsError(ret)
               /\ ret.preview <=> (ret.args.safe /\ Len(text) > 2000)
               /\ ret.preview => "content" \notin DOMAIN ret
               /\ ~ret.preview => ret.content = text
               /\ (~ret.preview /\ ret.args.safe) => Len(ret.content) <= 2000

\* 2001 characters were asked for with safe = true and withheld
C23_Witness ==
    /\ ret.op = "preview_transcript_lines"
    /\ ~IsError(ret)
    /\ ret.args.safe
    /\ ret.preview
    /\ ret.char_count = 2001

(***************************************************************************)
(* Segment truncation, checked under SpecPages                             *)
(***************************************************************************)
\* C24: every segment returned by getPageSegments carries the page body
\* unchanged when the body has at most maxChars characters and otherwise
\* the first maxChars characters of the body followed by '...', so that
\* its length is at most maxChars + 3; its estimated_tokens is the length
\* of the untruncated body divided by 4, rounded down.
C24_SegmentTruncation ==
    (/\ ret.op = "get_page_segments"
     /\ ~IsError(ret)
     /\ ret.args.file \in DOMAIN disk) =>
        \A k \in 1..Len(ret.segments) :
            LET body == CurrentPages(ret.args.file)[ret.segments[k].page]
                max  == ret.args.max_chars
                seg  == ret.segments[k]
            IN  /\ seg.estimated_tokens = Len(body) \div 4
                /\ IF Len(body) <= max
                   THEN seg.content = body
                   ELSE /\ Len(seg.content) <= max + 3
                        /\ seg.content =
                              [i \in 1..(max + 3) |->
                                  IF i <= max THEN body[i] ELSE "."]

(***************************************************************************)
(* The token budget, checked under SpecBudget                              *)
(***************************************************************************)
\* C25: a token estimate carries a warning exactly when its
\* total_estimated_tokens is greater than 100,000; for every total of
\* 100,000 or less the warning is absent.
C25_BudgetWarning ==
    (/\ ret.op \in {"calculate_token_usage", "estimate_tokens"}
     /\ "total_estimated_tokens" \in DOMAIN ret) =>
        (ret.warning # NoneV <=> ret.total_estimated_tokens > 100000)

(***************************************************************************)
(* The composition of an estimate, checked under SpecPages                 *)
(***************************************************************************)
\* C26: an estimate has one entry for each element of files and one for
\* each file named only in selections, so a file named in both has the
\* entries of its occurrences in files alone; the entry of an uncached
\* file is an error entry without tokens, a selected page outside
\* [1, totalPages] adds nothing, and total_estimated_tokens is the sum of
\* the estimated_tokens of the entries that have them.
C26_EstimateComposition ==
    (ret.op = "calculate_token_usage" /\ ~IsError(ret)) =>
        LET files == ret.args.files
            keys  == SelectionKeys(ret.args.selections)
            named == {files[k] : k \in 1..Len(files)}
        IN  /\ Len(ret.files) = Len(files) + Cardinality(keys \ named)
            /\ \A k \in 1..Len(files) : ret.files[k].file = files[k]
            /\ \A k \in 1..Len(ret.files) :
                  LET e == ret.files[k]
                  IN  IF e.file \notin DOMAIN file_cache
                      THEN "error" \in DOMAIN e /\ "estimated_tokens" \notin DOMAIN e
                      ELSE IF e.file \in keys
                      THEN LET pages == CurrentPages(e.file)
                               sel   == SelectedPages(ret.args.selections, e.file)
                           IN  e.estimated_tokens =
                                  SumSeq([i \in 1..Len(sel) |->
                                             IF sel[i] \in 1..Len(pages)
                                             THEN Len(pages[sel[i]]) \div 4
                                             ELSE 0])
                      ELSE e.estimated_tokens = file_cache[e.file].estimated_tokens
            /\ ret.total_estimated_tokens =
                  SumSeq([k \in 1..Len(ret.files) |->
                             IF "estimated_tokens" \in DOMAIN ret.files[k]
                             THEN ret.files[k].estimated_tokens ELSE 0])

(***************************************************************************)
(* The result set of a content search, checked under SpecGuard             *)
(***************************************************************************)
\* C27: a content search looks at all cached files, or at the files of
\* the given list that are cached; its count is the number of those files
\* whose cleaned text has at least one match, and its results name only
\* such files, each with match_count >= 1.
C27_SearchResultSet ==
    (ret.op = "search_transcript_content" /\ ~IsError(ret)) =>
        LET hits == FilesWithMatch(ret.args.query, ret.args.files, ret.args.regex)
        IN  /\ ret.count = Cardinality(hits)
            /\ ~ret.preview =>
                  /\ Len(ret.results) = ret.count
                  /\ \A k \in 1..Len(ret.results) :
                        /\ ret.results[k].match_count >= 1
                        /\ ret.results[k].file \in hits

(***************************************************************************)
(* The cache document after a sync, checked under Spec                     *)
(***************************************************************************)
\* the paths recorded in the cache document of a directory, none without one
DocumentPaths(d) == IF docs[d] = NoDoc THEN {} ELSE DOMAIN docs[d]

\* C28: after every successful sync of a directory the cache document of
\* that directory holds exactly the records of the cache in memory, and
\* every path in it was in the directory's previous cache document or is a
\* matching file directly under the directory.
C28_DocumentIsCache ==
    [][\A d \in Dirs :
          (ret'.op = "sync" /\ ~IsError(ret') /\ ret'.dir = d) =>
              /\ docs'[d] # NoDoc
              /\ docs'[d] = file_cache'
              /\ DOMAIN docs'[d] \subseteq DocumentPaths(d) \cup Glob(d)]_ret

\* a directory has been synced after another one whose document holds
\* records; its own document holds a record of a file no longer on disk
C28_Witness ==
    /\ ret.op = "sync"
    /\ ~IsError(ret)
    /\ ret.dir = "d2"
    /\ docs["d1"] # NoDoc
    /\ DOMAIN docs["d1"] # {}
    /\ docs["d2"] = file_cache
    /\ DOMAIN file_cache # {}
    /\ DOMAIN file_cache \cap DOMAIN disk = {}

(***************************************************************************)
(* The records after a sync, checked under Spec                            *)
(***************************************************************************)
\* C29: right after a successful sync of a directory, with no file written
\* or deleted since the call began, every matching file of the directory
\* has a record whose last_modified is the file's current modification time
\* and whose char_count, estimated_tokens and pages are computed from the
\* text the file has now.
C29_RecordsFresh ==
    (ret.op = "sync" /\ ~IsError(ret)) =>
        \A p \in Glob(ret.dir) :
            /\ p \in DOMAIN file_cache
            /\ file_cache[p].last_modified = IsoFormat(disk[p].mtime)
            /\ file_cache[p].char_count = Len(ReadText(p))
            /\ file_cache[p].estimated_tokens = Len(ReadText(p)) \div 4
            /\ file_cache[p].pages = CountMarkers(ReadText(p))

(***************************************************************************)
(* Overlapping syncs, checked under SpecOverlap                            *)
(***************************************************************************)
\* a finished sync wrote a document that lacks a record it upserted
LostRecord ==
    \E c \in Callers :
        /\ ret.call[c].pc = "done"
        /\ "error" \notin DOMAIN ret.call[c]
        /\ \E p \in ret.call[c].upserted : p \notin DOMAIN docs[ret.call[c].dir]

\* the document of a directory holds a record of a file of another one
ForeignRecord ==
    \E d \in ExistingDirs :
        /\ docs[d] # NoDoc
        /\ \E p \in DOMAIN docs[d] : p[1] # d

\* C30: sync calls are not mutually excluded.  As long as no two calls
\* have been in progress together, no document lacks a record its sync
\* upserted and none holds a record of another directory's file; overlapping
\* calls reach both outcomes (C30_Witness).
C30_DamageOnlyByOverlap ==
    ~ret.overlapped => (~LostRecord /\ ~ForeignRecord)

\* two calls overlapped; a document lacks an upserted record and a document
\* holds a record of the other call's directory
C30_Witness ==
    /\ ret.overlapped
    /\ LostRecord
    /\ ForeignRecord

====
